---- MODULE Spec2Model ----
(***************************************************************************)
(* A model of the transport and long-polling core of teloxide:             *)
(*   - method_url / file_url                (src/core/network/mod.rs)      *)
(*   - request and RequestError             (src/core/network/mod.rs)      *)
(*   - GetUpdates and its builder           (src/requests/all/get_updates) *)
(*   - DispatcherHandlerCtx::reply          (src/dispatching/...)          *)
(*   - InputMedia and its serialization     (src/types/input_media.rs)     *)
(* Strings are sequences of characters, Option<T> is <<>> (None) or <<v>>  *)
(* (Some(v)), a JSON text is a sequence of lexical tokens.                 *)
(***************************************************************************)
EXTENDS Integers, Sequences, FiniteSets, TLC

VARIABLES
    \* ---- URL construction (method_url, file_url)
    base, token, name, url, furl, urlPc,
    \* ---- one call of request: the operation, the program counter, the POSTs
    \* issued, the HTTP response, the applications of serde_json::from_str,
    \* and what the call returned
    op, reqPc, posts, response, decodes, ret,
    \* ---- the server's queue of unconfirmed updates and its next update id
    held, nextId,
    \* ---- the Update Poller: its request value (with the offset), its state,
    \* the request and the answer in flight, whether the answer is in, the
    \* updates of the batch not yet emitted, the updates emitted and the
    \* record of the cycle
    req, pollState, inflight, reply, got, pending, emitted, cycle,
    \* ---- the handler contexts, one per emitted update
    ctxs,
    \* ---- one serialization of an InputMedia value: the value, the program
    \* counter and the JSON text serde_json::to_string produced
    media, mediaPc, mediaJson

urlVars == <<base, token, name, url, furl, urlPc>>
reqVars == <<op, reqPc, posts, response, decodes, ret>>

pollVars == <<held, nextId, req, pollState, inflight, reply, got, pending,
              emitted, cycle, ctxs>>

mediaVars == <<media, mediaPc, mediaJson>>

vars == <<urlVars, reqVars, pollVars, mediaVars>>

(***************************************************************************)
(* Options and small helpers                                               *)
(***************************************************************************)
None == <<>>
Some(v) == <<v>>
IsSome(o) == Len(o) = 1
Unwrap(o) == o[1]

\* All sequences over S of length lo..hi.
SeqsBetween(S, lo, hi) == UNION {[1..n -> S] : n \in lo..hi}

(***************************************************************************)
(* format!: a template is a sequence of pieces, each a literal text or a   *)
(* named argument; formatting writes the pieces out left to right.         *)
(***************************************************************************)
Lit(s) == [k |-> "lit", s |-> s, n |-> ""]
Arg(n) == [k |-> "arg", s |-> <<>>, n |-> n]

RECURSIVE Format(_, _)
Format(template, args) ==
    IF template = <<>> THEN <<>>
    ELSE LET p == Head(template)
             out == IF p.k = "lit" THEN p.s ELSE args[p.n]
         IN  out \o Format(Tail(template), args)

\* "{url}/bot{token}/{method}"
MethodUrlTemplate ==
    <<Arg("url"), Lit(<<"/", "b", "o", "t">>), Arg("token"), Lit(<<"/">>),
      Arg("method")>>

\* "{url}/file/bot{token}/{file}"
FileUrlTemplate ==
    <<Arg("url"), Lit(<<"/", "f", "i", "l", "e", "/", "b", "o", "t">>),
      Arg("token"), Lit(<<"/">>), Arg("file")>>

\* A slip in the format string's arguments: token and method exchanged.
method_url_swapped(b, t, m) ==
    Format(MethodUrlTemplate, [url |-> b, token |-> m, method |-> t])

method_url(b, t, m) ==
    Format(MethodUrlTemplate, [url |-> b, token |-> t, method |-> m])

file_url(b, t, f) ==
    Format(FileUrlTemplate, [url |-> b, token |-> t, file |-> f])

TELEGRAM_API_URL == <<"https:", "/", "/", "api.telegram.org">>

(***************************************************************************)
(* serde_json: a Value is a tagged record, a JSON text is a sequence of    *)
(* lexical chunks: the punctuation, the bare words true, false and null,   *)
(* numerals, and strings written as a quote, the content, a quote.         *)
(***************************************************************************)
Q == "\""

JNull == [t |-> "null", v |-> <<>>]
JBool(b) == [t |-> "bool", v |-> b]
JNum(n) == [t |-> "num", v |-> n]
JStr(s) == [t |-> "str", v |-> s]
JArr(vs) == [t |-> "arr", v |-> vs]
\* An object is the sequence of its <<key, value>> members.
JObj(ms) == [t |-> "obj", v |-> ms]

\* The decimal numerals of the numbers a text of the model can hold.
MaxNumeral == 9
NumeralOf(n) == ToString(n)
Numerals == {NumeralOf(n) : n \in 0..MaxNumeral}
NumVal(c) == CHOOSE n \in 0..MaxNumeral : NumeralOf(n) = c

RECURSIVE JoinTexts(_)
\* Texts separated by commas.
JoinTexts(ts) ==
    IF ts = <<>> THEN <<>>
    ELSE IF Len(ts) = 1 THEN ts[1]
    ELSE ts[1] \o <<",">> \o JoinTexts(Tail(ts))

StrText(s) == IF s = "" THEN <<Q, Q>> ELSE <<Q, s, Q>>

RECURSIVE ToText(_)
\* Value::to_string: the JSON text of a value.
ToText(v) ==
    CASE v.t = "null" -> <<"null">>
      [] v.t = "bool" -> IF v.v THEN <<"true">> ELSE <<"false">>
      [] v.t = "num" -> <<NumeralOf(v.v)>>
      [] v.t = "str" -> StrText(v.v)
      [] v.t = "arr" ->
            <<"[">> \o JoinTexts([i \in 1..Len(v.v) |-> ToText(v.v[i])]) \o <<"]">>
      [] v.t = "obj" ->
            <<"{">>
            \o JoinTexts([i \in 1..Len(v.v) |->
                            StrText(v.v[i][1]) \o <<":">> \o ToText(v.v[i][2])])
            \o <<"}">>

ParseFail == [ok |-> FALSE, val |-> JNull, next |-> 0]
Parsed(v, n) == [ok |-> TRUE, val |-> v, next |-> n]

\* A string at position i: a quote, at most one chunk of content, a quote.
ParseString(text, i) ==
    IF i > Len(text) \/ text[i] # Q THEN ParseFail
    ELSE IF i + 1 <= Len(text) /\ text[i + 1] = Q THEN Parsed(JStr(""), i + 2)
    ELSE IF i + 2 <= Len(text) /\ text[i + 2] = Q
         THEN Parsed(JStr(text[i + 1]), i + 3)
    ELSE ParseFail

RECURSIVE ParseValue(_, _), ParseMembers(_, _, _), ParseElements(_, _, _)
ParseValue(text, i) ==
    IF i > Len(text) THEN ParseFail
    ELSE LET c == text[i] IN
         CASE c = Q -> ParseString(text, i)
           [] c = "null" -> Parsed(JNull, i + 1)
           [] c = "true" -> Parsed(JBool(TRUE), i + 1)
           [] c = "false" -> Parsed(JBool(FALSE), i + 1)
           [] c \in Numerals -> Parsed(JNum(NumVal(c)), i + 1)
           [] c = "{" ->
                IF i + 1 <= Len(text) /\ text[i + 1] = "}"
                THEN Parsed(JObj(<<>>), i + 2)
                ELSE ParseMembers(text, i + 1, <<>>)
           [] c = "[" ->
                IF i + 1 <= Len(text) /\ text[i + 1] = "]"
                THEN Parsed(JArr(<<>>), i + 2)
                ELSE ParseElements(text, i + 1, <<>>)
           [] OTHER -> ParseFail

\* "key": value, then a comma and more members or the closing brace.
ParseMembers(text, i, acc) ==
    LET k == ParseString(text, i) IN
    IF ~k.ok \/ k.next > Len(text) \/ text[k.next] # ":" THEN ParseFail
    ELSE LET r == ParseValue(text, k.next + 1) IN
         IF ~r.ok \/ r.next > Len(text) THEN ParseFail
         ELSE LET ms == Append(acc, <<k.val.v, r.val>>) IN
              CASE text[r.next] = "}" -> Parsed(JObj(ms), r.next + 1)
                [] text[r.next] = "," -> ParseMembers(text, r.next + 1, ms)
                [] OTHER -> ParseFail

ParseElements(text, i, acc) ==
    LET r == ParseValue(text, i) IN
    IF ~r.ok \/ r.next > Len(text) THEN ParseFail
    ELSE LET es == Append(acc, r.val) IN
         CASE text[r.next] = "]" -> Parsed(JArr(es), r.next + 1)
           [] text[r.next] = "," -> ParseElements(text, r.next + 1, es)
           [] OTHER -> ParseFail

\* serde_json::from_str::<Value>: one value, and nothing after it.
from_str(text) ==
    LET r == ParseValue(text, 1) IN
    IF r.ok /\ r.next = Len(text) + 1 THEN r ELSE ParseFail

\* Value's Index<&str>: the member of that key (the last one written wins),
\* Null for a missing key and for a value that is no object.
Index(v, key) ==
    IF v.t # "obj" THEN JNull
    ELSE LET hits == {i \in 1..Len(v.v) : v.v[i][1] = key} IN
         IF hits = {} THEN JNull
         ELSE v.v[CHOOSE i \in hits : \A j \in hits : j <= i][2]

\* Value's PartialEq<&str>: only a JSON string of the same content is equal.
ValueEqStr(v, s) == v.t = "str" /\ v.v = s

(***************************************************************************)
(* serde_json::from_value::<T> for the result types of the model's         *)
(* operations: bool, String and Vec<Update>, an Update being an object     *)
(* with a numeric update_id.                                               *)
(***************************************************************************)
NoVal == [t |-> "none", v |-> <<>>]

IsUpdateJson(v) == v.t = "obj" /\ Index(v, "update_id").t = "num"

from_value(T, v) ==
    CASE T = "bool" ->
            IF v.t = "bool" THEN [ok |-> TRUE, val |-> v]
            ELSE [ok |-> FALSE, val |-> NoVal]
      [] T = "String" ->
            IF v.t = "str" THEN [ok |-> TRUE, val |-> v]
            ELSE [ok |-> FALSE, val |-> NoVal]
      [] T = "Vec<Update>" ->
            IF v.t = "arr" /\ \A i \in 1..Len(v.v) : IsUpdateJson(v.v[i])
            THEN [ok |-> TRUE,
                  val |-> [t |-> "updates",
                           v |-> [i \in 1..Len(v.v) |->
                                    Index(v.v[i], "update_id").v]]]
            ELSE [ok |-> FALSE, val |-> NoVal]

(***************************************************************************)
(* RequestError and ResponseResult<T>                                      *)
(***************************************************************************)
NoRet == [tag |-> "none", val |-> NoVal, status_code |-> 0,
          description |-> <<>>, cause |-> ""]
Ok(val) == [NoRet EXCEPT !.tag = "Ok", !.val = val]
ApiError(status, description) ==
    [NoRet EXCEPT !.tag = "ApiError", !.status_code = status,
                  !.description = description]
NetworkError(cause) == [NoRet EXCEPT !.tag = "NetworkError", !.cause = cause]
InvalidJson(cause) == [NoRet EXCEPT !.tag = "InvalidJson", !.cause = cause]
\* unwrap() on an Err: the call unwinds and returns nothing.
Panic == [NoRet EXCEPT !.tag = "Panic"]

ErrorKinds == {"ApiError", "NetworkError", "InvalidJson"}

(***************************************************************************)
(* request: the operations (name, token, multipart params, result type),   *)
(* the body attached to the POST, and the classification of the response.  *)
(***************************************************************************)
BotToken == <<"1", ":", "A">>

Operation(n, p, T) == [name |-> n, token |-> BotToken, params |-> p, T |-> T]

Operations ==
    { Operation(<<"getWebhookInfo">>, None, "bool"),
      Operation(<<"getUpdates">>, None, "Vec<Update>"),
      Operation(<<"exportChatInviteLink">>,
                Some(<<<<"chat_id", "7">>>>), "String"),
      Operation(<<"sendDocument">>,
                Some(<<<<"chat_id", "7">>, <<"document", "file">>>>), "bool") }

NoBody == [kind |-> "none", form |-> <<>>]
Multipart(form) == [kind |-> "multipart", form |-> form]

\* The apply() closure: multipart when params() is Some, else the builder
\* is left as it is.
request_body(o) ==
    IF IsSome(o.params) THEN Multipart(Unwrap(o.params)) ELSE NoBody

\* A slip in the error mapping: a parse failure reported as an API error.
classify_parse_error_as_api(T, status, body) ==
    LET p == from_str(body) IN
    IF ~p.ok THEN ApiError(status, body)
    ELSE IF ValueEqStr(Index(p.val, "ok"), "false")
         THEN ApiError(status, ToText(Index(p.val, "description")))
    ELSE LET d == from_value(T, Index(p.val, "result")) IN
         IF d.ok THEN Ok(d.val) ELSE Panic

\* The body text turned into the call's outcome.
classify(T, status, body) ==
    LET p == from_str(body) IN
    IF ~p.ok THEN InvalidJson("syntax")
    ELSE IF ValueEqStr(Index(p.val, "ok"), "false")
         THEN ApiError(status, ToText(Index(p.val, "description")))
    ELSE LET d == from_value(T, Index(p.val, "result")) IN
         IF d.ok THEN Ok(d.val) ELSE Panic

(***************************************************************************)
(* The responses a server or a proxy in between can send.                  *)
(***************************************************************************)
StatusCodes == {200, 400}
Causes == {"connect", "timeout"}

\* The members an envelope can have, each list indexed from 1 (values of
\* different JSON types are kept in sequences, not in sets).
OkMembers ==
    << <<>>, <<<<"ok", JBool(TRUE)>>>>, <<<<"ok", JBool(FALSE)>>>>,
       <<<<"ok", JStr("false")>>>>, <<<<"ok", JNull>>>> >>
ResultMembers ==
    << <<>>, <<<<"result", JBool(TRUE)>>>>, <<<<"result", JStr("abc")>>>>,
       <<<<"result", JArr(<<>>)>>>>,
       <<<<"result", JArr(<<JObj(<<<<"update_id", JNum(1)>>>>),
                            JObj(<<<<"update_id", JNum(2)>>>>)>>)>>>>,
       <<<<"result", JArr(<<JNum(7)>>)>>>> >>
DescriptionMembers ==
    << <<>>, <<<<"description", JStr("Bad Request")>>>>,
       <<<<"description", JNum(7)>>>> >>

Envelope(i, j, k) ==
    JObj(OkMembers[i] \o ResultMembers[j] \o DescriptionMembers[k])
NonObjects == << JBool(TRUE), JStr("false"), JArr(<<>>) >>

ValidBodies ==
    { ToText(Envelope(i, j, k)) :
        i \in 1..Len(OkMembers), j \in 1..Len(ResultMembers),
        k \in 1..Len(DescriptionMembers) }
    \cup { ToText(NonObjects[i]) : i \in 1..Len(NonObjects) }

\* Texts that are not JSON: a valid text cut short, a valid text with
\* something after it, and an HTML page.
Truncated ==
    UNION { { SubSeq(b, 1, k) : k \in 0..(Len(b) - 1) } : b \in ValidBodies }

MalformedBodies ==
    (Truncated \ ValidBodies)
        \cup { b \o <<"<html>">> : b \in ValidBodies }
        \cup { <<"<html>">> }

Bodies == ValidBodies \cup MalformedBodies

\* status_code and body: what came in; failure: the cause of the transport
\* error, if sending or reading the body failed.
NoResponse == [status_code |-> 0, body |-> <<>>, failure |-> ""]

ReqStart ==
    /\ op \in Operations
    /\ reqPc = "idle"
    /\ posts = <<>>
    /\ response = NoResponse
    /\ decodes = 0
    /\ ret = NoRet

ReqIdle ==
    /\ op = Operation(<<>>, None, "bool")
    /\ reqPc = "off"
    /\ posts = <<>>
    /\ response = NoResponse
    /\ decodes = 0
    /\ ret = NoRet

\* client.post(url) with the body, then send(): the POST is on its way.
Post ==
    /\ reqPc = "idle"
    /\ posts' = Append(posts,
                       [url |-> method_url(TELEGRAM_API_URL, op.token, op.name),
                        body |-> request_body(op)])
    /\ reqPc' = "sending"
    /\ UNCHANGED <<op, response, decodes, ret, urlVars, pollVars, mediaVars>>

\* A slip: the POST is issued again when sending fails.
SendFails_retry ==
    /\ reqPc = "sending"
    /\ Len(posts) < 2
    /\ posts' = Append(posts, posts[1])
    /\ UNCHANGED <<op, reqPc, response, decodes, ret, urlVars, pollVars, mediaVars>>

\* send().await is an Err: map_err(NetworkError)? returns it.
SendFails ==
    /\ reqPc = "sending"
    /\ \E c \in Causes :
         /\ response' = [response EXCEPT !.failure = c]
         /\ ret' = NetworkError(c)
    /\ reqPc' = "done"
    /\ UNCHANGED <<op, posts, decodes, urlVars, pollVars, mediaVars>>

\* send().await is Ok(response): the status line and headers are in.
SendSucceeds ==
    /\ reqPc = "sending"
    /\ response' \in [status_code : StatusCodes, body : Bodies, failure : {""}]
    /\ reqPc' = "reading"
    /\ UNCHANGED <<op, posts, decodes, ret, urlVars, pollVars, mediaVars>>

\* response.text().await is an Err: map_err(NetworkError)? returns it.
TextFails ==
    /\ reqPc = "reading"
    /\ \E c \in Causes :
         /\ response' = [response EXCEPT !.failure = c]
         /\ ret' = NetworkError(c)
    /\ reqPc' = "done"
    /\ UNCHANGED <<op, posts, decodes, urlVars, pollVars, mediaVars>>

\* response.text().await is Ok(text): parse it and classify the envelope.
TextSucceeds ==
    /\ reqPc = "reading"
    /\ decodes' = decodes + 1
    /\ ret' = classify(op.T, response.status_code, response.body)
    /\ reqPc' = IF ret'.tag = "Panic" THEN "panicked" ELSE "done"
    /\ UNCHANGED <<op, posts, response, urlVars, pollVars, mediaVars>>

ReqNext == Post \/ SendFails \/ SendSucceeds \/ TextFails \/ TextSucceeds

(***************************************************************************)
(* GetUpdates: the request value, its builder and what send() posts.       *)
(***************************************************************************)
\* GetUpdates::new (the bot reference is the one shared client handle).
GetUpdates_new ==
    [offset |-> None, limit |-> None, timeout |-> None,
     allowed_updates |-> None]

\* A slip in the builder: the value is dropped and the field stays as it was.
GetUpdates_offset_ignored(self, value) == self

\* A slip: the offset stored is one past the value given.
GetUpdates_offset_skips_one(self, value) ==
    [self EXCEPT !.offset = Some(value + 1)]

GetUpdates_offset(self, value) == [self EXCEPT !.offset = Some(value)]
GetUpdates_limit(self, value) == [self EXCEPT !.limit = Some(value)]
GetUpdates_timeout(self, value) == [self EXCEPT !.timeout = Some(value)]

\* #[derive(Serialize)] with skip_serializing_none and the bot skipped:
\* the fields that are Some, in declaration order.
\* A slip in the attributes: the offset is skipped like the bot.
GetUpdates_serialize_no_offset(self) ==
    JObj( (IF IsSome(self.limit)
             THEN <<<<"limit", JNum(Unwrap(self.limit))>>>> ELSE <<>>)
       \o (IF IsSome(self.timeout)
             THEN <<<<"timeout", JNum(Unwrap(self.timeout))>>>> ELSE <<>>)
       \o (IF IsSome(self.allowed_updates)
             THEN <<<<"allowed_updates", JArr(<<>>)>>>> ELSE <<>>) )

GetUpdates_serialize(self) ==
    JObj( (IF IsSome(self.offset)
             THEN <<<<"offset", JNum(Unwrap(self.offset))>>>> ELSE <<>>)
       \o (IF IsSome(self.limit)
             THEN <<<<"limit", JNum(Unwrap(self.limit))>>>> ELSE <<>>)
       \o (IF IsSome(self.timeout)
             THEN <<<<"timeout", JNum(Unwrap(self.timeout))>>>> ELSE <<>>)
       \o (IF IsSome(self.allowed_updates)
             THEN <<<<"allowed_updates", JArr(<<>>)>>>> ELSE <<>>) )

\* What send() hands to request_json: the method name and
\* serde_json::to_string(self).
GetUpdates_send_post(self) ==
    [url |-> method_url(TELEGRAM_API_URL, BotToken, <<"getUpdates">>),
     body |-> [kind |-> "json", text |-> ToText(GetUpdates_serialize(self))]]

\* A slip: the error of the call is swallowed and an empty list returned.
GetUpdates_send_swallow(outcome) ==
    IF outcome.tag = "Ok" THEN outcome
    ELSE Ok([t |-> "updates", v |-> <<>>])

\* send() returns what request_json(...).await returned, as it is.
GetUpdates_send_result(outcome) == outcome

\* A slip: send moves the offset of the value by itself.
GetUpdates_send_advances(self) ==
    [self EXCEPT !.offset = IF IsSome(@) THEN Some(Unwrap(@) + 1) ELSE Some(1)]

\* The request value after send(&self): the borrow is shared, the value is
\* as it was.
GetUpdates_send_self(self) == self

(***************************************************************************)
(* The server's update queue, as the documentation of GetUpdates states    *)
(* it: an update is confirmed (forgotten) once a call carries an offset    *)
(* above its id, and a call returns the unconfirmed updates from the       *)
(* offset on, lowest id first, at most `limit` of them (100 by default).   *)
(***************************************************************************)
DefaultLimit == 100

Max(S) == CHOOSE x \in S : \A y \in S : y <= x

RECURSIVE Descending(_)
\* The updates of a set, highest id first.
Descending(S) ==
    IF S = {} THEN <<>>
    ELSE LET u == CHOOSE x \in S : \A y \in S : x.id >= y.id
         IN  <<u>> \o Descending(S \ {u})

RECURSIVE Ascending(_)
\* The updates of a set, lowest id first.
Ascending(S) ==
    IF S = {} THEN <<>>
    ELSE LET u == CHOOSE x \in S : \A y \in S : x.id <= y.id
         IN  <<u>> \o Ascending(S \ {u})

Take(s, n) == SubSeq(s, 1, IF n < Len(s) THEN n ELSE Len(s))

Ids(s) == {s[i].id : i \in 1..Len(s)}

\* The updates still held after a call with this body text.
ServerConfirm(queue, text) ==
    LET off == Index(from_str(text).val, "offset") IN
    IF off.t = "num" THEN {u \in queue : u.id >= off.v} ELSE queue

\* The batch the server answers a call with this body text with.
ServerBatch(queue, text) ==
    LET lim == Index(from_str(text).val, "limit") IN
    Take(Ascending(ServerConfirm(queue, text)),
         IF lim.t = "num" THEN lim.v ELSE DefaultLimit)

(***************************************************************************)
(* DispatcherHandlerCtx                                                    *)
(***************************************************************************)
Unit == [t |-> "unit", v |-> <<>>]
SentMessage == [t |-> "message", v |-> <<>>]

\* bot and update are the struct; state, calls, sent, outcome and ret track
\* the handler that owns it: the calls of reply, the requests they sent,
\* what the transport answered and what reply returned.
DispatcherHandlerCtx(update) ==
    [bot |-> "bot", update |-> update, state |-> "running", calls |-> 0,
     sent |-> <<>>, outcome |-> NoRet, ret |-> NoRet]

\* impl GetChatId for DispatcherHandlerCtx
chat_id(ctx) == ctx.update.chat_id

\* A slip: the reply goes to the id of the update, not to the chat's.
reply_request_to_update_id(ctx, text) ==
    [method |-> <<"sendMessage">>, chat_id |-> ctx.update.id, text |-> text]

\* self.bot.send_message(self.chat_id(), text)
reply_request(ctx, text) ==
    [method |-> <<"sendMessage">>, chat_id |-> chat_id(ctx), text |-> text]

\* .send().await.map(|_| ())
reply_result(outcome) ==
    IF outcome.tag = "Ok" THEN Ok(Unit) ELSE outcome

(***************************************************************************)
(* Spec: the server's queue, the Update Poller, and the handler contexts   *)
(* of the updates it emits.                                                *)
(***************************************************************************)
MaxUpdateId == 3
MaxReplies == 1
\* The updates handled at once (the limit of a for_each_concurrent).
MaxLive == 2
\* The chat an update of the model belongs to: odd ids come from one chat,
\* even ids from another.
ChatOf(id) == IF id % 2 = 1 THEN 10 ELSE 20
Texts == {"hi"}

PollerConfigs ==
    { GetUpdates_new,
      GetUpdates_limit(GetUpdates_new, 1),
      GetUpdates_timeout(GetUpdates_limit(GetUpdates_new, 2), 0) }

PollErrors ==
    { NetworkError("timeout"), ApiError(409, <<"Conflict">>) }

ReplyOutcomes == { Ok(SentMessage), ApiError(400, <<"Bad Request">>) }

\* The record of a poll cycle: the offset and the number of emitted updates
\* when it began, the fetches issued in it, the queue the server answered
\* from, the batch received,
\* the error the call met (if any), what the poller handed its caller, and
\* how the cycle before ended.
NoCycle ==
    [offsetBefore |-> None, emittedBefore |-> 0, fetches |-> 0,
     heldSeen |-> {}, batch |-> <<>>, failure |-> NoRet, result |-> NoRet,
     prevTag |-> "none", sent |-> GetUpdates_new, post |-> None]

PollStartState ==
    /\ held = {}
    /\ nextId = 1
    /\ req \in PollerConfigs
    /\ pollState = "Idle"
    /\ inflight = None
    /\ reply = None
    /\ got = FALSE
    /\ pending = <<>>
    /\ emitted = <<>>
    /\ cycle = NoCycle
    /\ ctxs = <<>>

PollOff ==
    /\ held = {}
    /\ nextId = 0
    /\ req = GetUpdates_new
    /\ pollState = "off"
    /\ inflight = None
    /\ reply = None
    /\ got = FALSE
    /\ pending = <<>>
    /\ emitted = <<>>
    /\ cycle = NoCycle
    /\ ctxs = <<>>

\* The server: a new update joins the queue with the next id.
NewUpdate ==
    /\ nextId \in 1..MaxUpdateId
    /\ held' = held \cup {[id |-> nextId, chat_id |-> ChatOf(nextId)]}
    /\ nextId' = nextId + 1
    /\ UNCHANGED <<req, pollState, inflight, reply, got, pending, emitted,
                   cycle, ctxs, urlVars, reqVars, mediaVars>>

\* A slip: the poller is invoked again while its call is outstanding.
PollStart_while_polling ==
    /\ pollState \in {"Idle", "Polling"}
    /\ inflight = None
    /\ inflight' = Some(GetUpdates_send_post(req))
    /\ pollState' = "Polling"
    /\ cycle' = [cycle EXCEPT !.fetches = @ + 1]
    /\ UNCHANGED <<held, nextId, req, reply, got, pending, emitted, ctxs,
                   urlVars, reqVars, mediaVars>>

\* Idle -> Polling: the outer loop invokes the poller, which sends its
\* request value.
PollStart ==
    /\ pollState = "Idle"
    /\ inflight' = Some(GetUpdates_send_post(req))
    /\ pollState' = "Polling"
    /\ cycle' = [NoCycle EXCEPT !.offsetBefore = req.offset,
                                !.emittedBefore = Len(emitted),
                                !.fetches = 1,
                                !.prevTag = cycle.result.tag,
                                !.sent = req,
                                !.post = Some(GetUpdates_send_post(req))]
    /\ UNCHANGED <<held, nextId, req, reply, got, pending, emitted, ctxs,
                   urlVars, reqVars, mediaVars>>

\* The request reaches the server, which confirms and answers.
ServerReceive ==
    /\ pollState = "Polling"
    /\ IsSome(inflight)
    /\ LET text == Unwrap(inflight).body.text IN
       /\ held' = ServerConfirm(held, text)
       /\ reply' = Some(ServerBatch(held, text))
       /\ cycle' = [cycle EXCEPT !.heldSeen = ServerConfirm(held, text)]
    /\ inflight' = None
    /\ UNCHANGED <<nextId, req, pollState, got, pending, emitted, ctxs, urlVars, reqVars, mediaVars>>

\* The answer arrives: send() returns the batch.
PollReply ==
    /\ pollState = "Polling"
    /\ IsSome(reply)
    /\ LET out == GetUpdates_send_result(
                      Ok([t |-> "updates", v |-> Unwrap(reply)])) IN
       /\ pending' = out.val.v
       /\ cycle' = [cycle EXCEPT !.batch = out.val.v, !.result = out]
    /\ req' = GetUpdates_send_self(req)
    /\ got' = TRUE
    /\ reply' = None
    /\ UNCHANGED <<held, nextId, pollState, inflight, emitted, ctxs, urlVars,
                   reqVars, mediaVars>>

\* A slip: after a failed call the poller starts over with a fresh request
\* value of the same limit and timeout.
PollFail_forgets_offset ==
    /\ pollState = "Polling"
    /\ ~got
    /\ \E e \in PollErrors :
         LET out == GetUpdates_send_result(e) IN
         /\ cycle' = [cycle EXCEPT !.failure = e, !.result = out]
         /\ IF out.tag = "Ok"
            THEN /\ got' = TRUE
                 /\ pending' = out.val.v
                 /\ pollState' = "Polling"
            ELSE /\ got' = FALSE
                 /\ pending' = <<>>
                 /\ pollState' = "Idle"
    /\ req' = [req EXCEPT !.offset = None]
    /\ inflight' = None
    /\ reply' = None
    /\ UNCHANGED <<held, nextId, emitted, ctxs, urlVars, reqVars, mediaVars>>

\* Polling -> Idle on failure: the call fails before or after the server
\* saw it, and the error goes to the poller's caller.
PollFail ==
    /\ pollState = "Polling"
    /\ ~got
    /\ \E e \in PollErrors :
         LET out == GetUpdates_send_result(e) IN
         /\ cycle' = [cycle EXCEPT !.failure = e, !.result = out]
         /\ IF out.tag = "Ok"
            THEN /\ got' = TRUE
                 /\ pending' = out.val.v
                 /\ pollState' = "Polling"
            ELSE /\ got' = FALSE
                 /\ pending' = <<>>
                 /\ pollState' = "Idle"
    /\ req' = GetUpdates_send_self(req)
    /\ inflight' = None
    /\ reply' = None
    /\ UNCHANGED <<held, nextId, emitted, ctxs, urlVars, reqVars, mediaVars>>

Live == {i \in 1..Len(ctxs) : ctxs[i].state # "destroyed"}

\* The next update of the batch goes downstream, in its own context, once
\* the consumer has room for it.
Emit ==
    /\ pollState = "Polling"
    /\ got
    /\ pending # <<>>
    /\ Cardinality(Live) < MaxLive
    /\ emitted' = Append(emitted, Head(pending))
    /\ ctxs' = Append(ctxs, DispatcherHandlerCtx(Head(pending)))
    /\ pending' = Tail(pending)
    /\ UNCHANGED <<held, nextId, req, pollState, inflight, reply, got, cycle, urlVars, reqVars, mediaVars>>

\* Polling -> Idle on success: the batch is out, the offset moves past it.
PollFinish ==
    /\ pollState = "Polling"
    /\ got
    /\ pending = <<>>
    /\ req' = IF cycle.batch = <<>> THEN req
              ELSE GetUpdates_offset(req, Max(Ids(cycle.batch)) + 1)
    /\ pollState' = "Idle"
    /\ got' = FALSE
    /\ UNCHANGED <<held, nextId, inflight, reply, pending, emitted, cycle, ctxs, urlVars, reqVars, mediaVars>>

\* reply(text) is called in context i: the send-message request goes out.
ReplyStart(i) ==
    /\ ctxs[i].state = "running"
    /\ ctxs[i].calls < MaxReplies
    /\ \E text \in Texts :
         ctxs' = [ctxs EXCEPT
                    ![i].sent = Append(@, reply_request(ctxs[i], text)),
                    ![i].calls = @ + 1,
                    ![i].outcome = NoRet,
                    ![i].ret = NoRet,
                    ![i].state = "awaiting"]
    /\ UNCHANGED <<held, nextId, req, pollState, inflight, reply, got,
                   pending, emitted, cycle, urlVars,
                   reqVars, mediaVars>>

\* A slip: a reply that went through confirms the update it answers.
ReplyDone_moves_offset(i) ==
    /\ ctxs[i].state = "awaiting"
    /\ \E out \in ReplyOutcomes :
         ctxs' = [ctxs EXCEPT ![i].outcome = out,
                              ![i].ret = reply_result(out),
                              ![i].state = "running"]
    /\ req' = GetUpdates_offset(req, ctxs[i].update.id + 1)
    /\ UNCHANGED <<held, nextId, pollState, inflight, reply, got,
                   pending, emitted, cycle, urlVars,
                   reqVars, mediaVars>>

\* The transport's answer to the send-message request: reply returns.
ReplyDone(i) ==
    /\ ctxs[i].state = "awaiting"
    /\ \E out \in ReplyOutcomes :
         ctxs' = [ctxs EXCEPT ![i].outcome = out,
                              ![i].ret = reply_result(out),
                              ![i].state = "running"]
    /\ UNCHANGED <<held, nextId, req, pollState, inflight, reply, got,
                   pending, emitted, cycle, urlVars,
                   reqVars, mediaVars>>

\* The handler returns and its context is destroyed.
HandlerReturn(i) ==
    /\ ctxs[i].state = "running"
    /\ ctxs' = [ctxs EXCEPT ![i] =
                  [DispatcherHandlerCtx(ctxs[i].update) EXCEPT
                     !.state = "destroyed"]]
    /\ UNCHANGED <<held, nextId, req, pollState, inflight, reply, got,
                   pending, emitted, cycle, urlVars,
                   reqVars, mediaVars>>

PollNext ==
    \/ NewUpdate
    \/ PollStart
    \/ ServerReceive
    \/ PollReply
    \/ PollFail
    \/ Emit
    \/ PollFinish
    \/ \E i \in 1..Len(ctxs) : ReplyStart(i)
    \/ \E i \in 1..Len(ctxs) : ReplyDone(i)
    \/ \E i \in 1..Len(ctxs) : HandlerReturn(i)

(***************************************************************************)
(* SpecUrl: the URL builders applied to every triple of non-empty strings  *)
(* over UrlAlphabet of at most MaxStrLen characters.                       *)
(***************************************************************************)
MaxStrLen == 2
UrlAlphabet == {"a", "/", "b"}
UrlStrings == SeqsBetween(UrlAlphabet, 1, MaxStrLen)

UrlStart ==
    /\ base \in UrlStrings
    /\ token \in UrlStrings
    /\ name \in UrlStrings
    /\ url = None
    /\ furl = None
    /\ urlPc = "args"

UrlIdle ==
    /\ base = <<>> /\ token = <<>> /\ name = <<>>
    /\ url = None /\ furl = None /\ urlPc = "off"

CallMethodUrl ==
    /\ urlPc = "args"
    /\ url = None
    /\ url' = Some(method_url(base, token, name))
    /\ UNCHANGED <<base, token, name, furl, urlPc, reqVars, pollVars, mediaVars>>

CallFileUrl ==
    /\ urlPc = "args"
    /\ furl = None
    /\ furl' = Some(file_url(base, token, name))
    /\ UNCHANGED <<base, token, name, url, urlPc, reqVars, pollVars, mediaVars>>

UrlNext == CallMethodUrl \/ CallFileUrl

(***************************************************************************)
(* InputMedia (src/types/input_media.rs): an internally tagged enum whose  *)
(* variants wrap one struct each.  A value of the model is the variant     *)
(* name with the struct as a record of its fields.                         *)
(***************************************************************************)
InputMedia == <<"Photo", "Video", "Animation", "Audio", "Document">>

\* #[serde(rename_all = "snake_case")] applied to a variant name.
snake_case(variant) ==
    CASE variant = "Photo" -> "photo"
      [] variant = "Video" -> "video"
      [] variant = "Animation" -> "animation"
      [] variant = "Audio" -> "audio"
      [] variant = "Document" -> "document"

\* The fields of each struct, in the order of declaration.
InputMediaPhoto == <<"media", "caption", "parse_mode">>
InputMediaVideo ==
    <<"media", "thumb", "caption", "parse_mode", "width", "height",
      "duration", "supports_streaming">>
InputMediaAnimation ==
    <<"media", "thumb", "caption", "parse_mode", "width", "height",
      "duration">>
InputMediaAudio ==
    <<"media", "thumb", "caption", "parse_mode", "duration", "performer",
      "title">>
InputMediaDocument == <<"media", "thumb", "caption", "parse_mode">>

StructFields(variant) ==
    CASE variant = "Photo" -> InputMediaPhoto
      [] variant = "Video" -> InputMediaVideo
      [] variant = "Animation" -> InputMediaAnimation
      [] variant = "Audio" -> InputMediaAudio
      [] variant = "Document" -> InputMediaDocument

\* Every field but `media` is an Option.
IsOptionField(f) == f # "media"
OptionFields(variant) ==
    {StructFields(variant)[i] : i \in 2..Len(StructFields(variant))}

\* InputFile::FileId(id)
FileId(id) == [kind |-> "FileId", id |-> id]
\* A file id serializes as the bare string, as the serialization tests
\* of the module expect.
InputFile_serialize(file) == JStr(file.id)

\* The JSON value of a field by its type: InputFile, String, ParseMode
\* (by its name), u16, bool.
FieldJson(f, x) ==
    CASE f \in {"media", "thumb"} -> InputFile_serialize(x)
      [] f \in {"caption", "parse_mode", "performer", "title"} -> JStr(x)
      [] f \in {"width", "height", "duration"} -> JNum(x)
      [] f = "supports_streaming" -> JBool(x)

RECURSIVE StructMembers(_, _, _)
\* The members a derived Serialize writes for the struct s: one per field
\* in declaration order; with skip_serializing_none a None field writes
\* nothing, without it a None field writes null.
StructMembers(s, fields, skip_none) ==
    IF fields = <<>> THEN <<>>
    ELSE LET f == Head(fields)
             member ==
                 IF ~IsOptionField(f) THEN <<<<f, FieldJson(f, s[f])>>>>
                 ELSE IF IsSome(s[f])
                      THEN <<<<f, FieldJson(f, Unwrap(s[f]))>>>>
                 ELSE IF skip_none THEN <<>>
                 ELSE <<<<f, JNull>>>>
         IN member \o StructMembers(s, Tail(fields), skip_none)

\* The derived Serialize with the skip_serializing_none attribute left off.
InputMedia_serialize_keeps_none(m) ==
    JObj(<<<<"type", JStr(snake_case(m.variant))>>>>
         \o StructMembers(m.inner, StructFields(m.variant), FALSE))

\* #[serde(tag = "type")]: the tag is the first member, the fields of the
\* wrapped struct follow.
InputMedia_serialize(m) ==
    JObj(<<<<"type", JStr(snake_case(m.variant))>>>>
         \o StructMembers(m.inner, StructFields(m.variant), TRUE))

\* serde_json::to_string(&media)
InputMedia_to_string(m) == ToText(InputMedia_serialize(m))

(***************************************************************************)
(* SpecMedia: every variant, with every choice of which optional fields    *)
(* are set, serialized once.                                               *)
(***************************************************************************)
FileIds == {"123456", "AgADBAAD"}

\* The value a set optional field holds.
FieldValue(f) ==
    CASE f = "thumb" -> FileId("thumb1")
      [] f = "caption" -> "a caption"
      [] f = "parse_mode" -> "HTML"
      [] f = "performer" -> "a performer"
      [] f = "title" -> "a title"
      [] f = "width" -> 4
      [] f = "height" -> 3
      [] f = "duration" -> 7
      [] f = "supports_streaming" -> TRUE

InputMediaValue(variant, id, set) ==
    [variant |-> variant,
     inner |-> [f \in {"media"} \cup OptionFields(variant) |->
                    IF f = "media" THEN FileId(id)
                    ELSE IF f \in set THEN Some(FieldValue(f))
                    ELSE None]]

MediaStart ==
    /\ \E i \in 1..Len(InputMedia) :
         \E id \in FileIds :
           \E set \in SUBSET OptionFields(InputMedia[i]) :
             media = InputMediaValue(InputMedia[i], id, set)
    /\ mediaPc = "value"
    /\ mediaJson = None

MediaIdle ==
    /\ media = None
    /\ mediaPc = "off"
    /\ mediaJson = None

Serialize ==
    /\ mediaPc = "value"
    /\ mediaJson' = Some(InputMedia_to_string(media))
    /\ mediaPc' = "done"
    /\ UNCHANGED <<media, urlVars, reqVars, pollVars>>

MediaNext == Serialize

UrlInit == UrlStart /\ ReqIdle /\ PollOff /\ MediaIdle

SpecUrl == UrlInit /\ [][UrlNext]_vars

ReqInit == ReqStart /\ UrlIdle /\ PollOff /\ MediaIdle

SpecRequest == ReqInit /\ [][ReqNext]_vars

Init == PollStartState /\ UrlIdle /\ ReqIdle /\ MediaIdle

Next == PollNext

Spec == Init /\ [][Next]_vars

(***************************************************************************)
(* SpecLive: the poller under the conditions its liveness is stated for.   *)
(*   - The outer loop keeps invoking the poller: weak fairness of          *)
(*     PollStart.  PollStart is enabled exactly in Idle and leaves Idle,   *)
(*     so WF_vars(PollStart) is []<>(pollState # "Idle").                  *)
(*   - Polls eventually succeed, although any finite number of them may    *)
(*     fail before: strong fairness of the server receiving the request    *)
(*     and of the answer arriving, both of which a failure can pre-empt.   *)
(*     ServerReceive is enabled exactly while the request is in flight     *)
(*     and the answer is in flight exactly after it, so                    *)
(*     SF_vars(ServerReceive) is []<>IsSome(inflight) => []<>IsSome(reply).*)
(*   - The poller goes on once it can (WF on Emit and PollFinish), and     *)
(*     the executor drives every handler to its end (WF on the return of   *)
(*     the handler).                                                       *)
(* The handlers of SpecLive return without calling reply: a call of reply  *)
(* touches nothing the poller reads and only delays the return.            *)
(***************************************************************************)
OuterLoopKeepsInvoking == []<>(pollState # "Idle")

RequestsKeepArriving == []<>IsSome(inflight) => []<>IsSome(reply)

LiveNext ==
    \/ NewUpdate
    \/ PollStart
    \/ ServerReceive
    \/ PollReply
    \/ PollFail
    \/ Emit
    \/ PollFinish
    \/ \E i \in 1..Len(ctxs) : HandlerReturn(i)

Fairness ==
    /\ OuterLoopKeepsInvoking
    /\ RequestsKeepArriving
    /\ SF_vars(PollReply)
    /\ WF_vars(Emit)
    /\ WF_vars(PollFinish)
    /\ WF_vars(\E i \in 1..Len(ctxs) : HandlerReturn(i))

SpecLive == Init /\ [][LiveNext]_vars /\ Fairness

MediaInit == MediaStart /\ UrlIdle /\ ReqIdle /\ PollOff

SpecMedia == MediaInit /\ [][MediaNext]_vars

(***************************************************************************)
(* Claims about the Update Poller and the handler contexts (Spec)          *)
(***************************************************************************)
\* The updates the cycle on record has emitted so far.
EmittedInCycle == SubSeq(emitted, cycle.emittedBefore + 1, Len(emitted))

LimitOf(r) == IF IsSome(r.limit) THEN Unwrap(r.limit) ELSE DefaultLimit

\* C1: after the poller has processed a non-empty batch its offset is
\* 1 + the highest update id of the batch; after an empty batch the offset
\* is what it was before the poll.
C1_OffsetAfterBatch ==
    (pollState = "Idle" /\ cycle.result.tag = "Ok") =>
        req.offset = IF cycle.batch = <<>> THEN cycle.offsetBefore
                     ELSE Some(1 + Max(Ids(cycle.batch)))

\* A cycle that began with an offset already set has processed a batch of
\* two updates.
C1_Witness ==
    /\ pollState = "Idle"
    /\ cycle.result.tag = "Ok"
    /\ IsSome(cycle.offsetBefore)
    /\ Len(cycle.batch) = 2

\* C2: over successive poll cycles, each carrying the offset the cycle
\* before left, no update id is emitted downstream more than once.
C2_NoUpdateEmittedTwice ==
    \A i, j \in 1..Len(emitted) :
        i # j => emitted[i].id # emitted[j].id

\* Three updates are out, the last of them in a successful cycle that
\* followed another successful cycle.
C2_Witness ==
    /\ Len(emitted) = 3
    /\ pollState = "Idle"
    /\ cycle.result.tag = "Ok" /\ cycle.prevTag = "Ok"
    /\ cycle.emittedBefore \in 1..2

\* What holds of a poll that failed at the transport level: its caller got
\* the NetworkError, nothing was emitted, the offset is the one from before
\* the poll, the poller fetched once in that cycle and nothing is in flight.
FailedPollIsSurfaced ==
    (pollState = "Idle" /\ cycle.failure.tag = "NetworkError") =>
        /\ cycle.result = cycle.failure
        /\ Len(emitted) = cycle.emittedBefore
        /\ req.offset = cycle.offsetBefore
        /\ cycle.fetches = 1
        /\ inflight = None /\ reply = None

AfterFailedPoll ==
    /\ pollState = "Idle"
    /\ cycle.result.tag = "Ok"
    /\ cycle.prevTag = "NetworkError"

C10_ReplyIssuesOneRequest ==
    \A i \in 1..Len(ctxs) :
        LET c == ctxs[i] IN
        /\ Len(c.sent) = c.calls
        /\ \A k \in 1..Len(c.sent) :
              /\ c.sent[k].method = <<"sendMessage">>
              /\ c.sent[k].chat_id = emitted[i].chat_id
        /\ (c.state = "running" /\ c.calls > 0) =>
              /\ c.outcome.tag = "Ok" => c.ret = Ok(Unit)
              /\ c.outcome.tag # "Ok" => c.ret = c.outcome

\* reply has returned an API error in the context of update 2 after the
\* context of update 1 got unit.
C10_Witness ==
    /\ Len(ctxs) >= 2
    /\ ctxs[1].ret = Ok(Unit)
    /\ ctxs[2].calls = 1 /\ ctxs[2].state = "running"
    /\ ctxs[2].ret.tag = "ApiError"
    /\ ctxs[2].sent[1].chat_id = 20

(***************************************************************************)
(* Claims about request (SpecRequest)                                      *)
(***************************************************************************)
Returned == reqPc \in {"done", "panicked"}
HasKey(v, key) == v.t = "obj" /\ \E i \in 1..Len(v.v) : v.v[i][1] = key

\* A JSON value that counts as false: false, null, 0 and the empty string.
Falsy(v) ==
    \/ v.t = "null"
    \/ v.t = "bool" /\ ~v.v
    \/ v.t = "num" /\ v.v = 0
    \/ v.t = "str" /\ v.v = ""

\* C4: a response whose body is a JSON envelope with a falsy ok (the
\* boolean false included) and a description string makes request return
\* ApiError with the response's HTTP status and exactly that description.
C4_FalsyOkIsApiError ==
    (Returned /\ decodes = 1) =>
        LET p == from_str(response.body) IN
        (/\ p.ok
         /\ HasKey(p.val, "ok")
         /\ Falsy(Index(p.val, "ok"))
         /\ Index(p.val, "description").t = "str")
        => ret = ApiError(response.status_code,
                          <<Index(p.val, "description").v>>)

\* C5: a response body that is not valid JSON makes request return
\* InvalidJson: never ApiError, never a success value, never a panic.
C5_MalformedBodyIsInvalidJson ==
    (Returned /\ decodes = 1 /\ response.body \in MalformedBodies) =>
        /\ reqPc = "done"
        /\ ret.tag = "InvalidJson"

\* request returned on an envelope that was cut short after at least three
\* chunks, with status 400.
C5_Witness ==
    /\ reqPc = "done" /\ decodes = 1
    /\ response.body \in Truncated \ ValidBodies
    /\ Len(response.body) >= 3
    /\ response.status_code = 400
    /\ ret.tag = "InvalidJson"

\* C6: every completed call returns a typed result or one of the three
\* error kinds; valid JSON whose ok is not false but whose result does not
\* match the declared result type is returned as InvalidJson (DecodeError).
C6_EveryCallReturnsResultOrError ==
    Returned =>
        /\ ret.tag \in {"Ok"} \cup ErrorKinds
        /\ LET p == from_str(response.body) IN
           (/\ decodes = 1
            /\ p.ok
            /\ Index(p.val, "ok") = JBool(TRUE)
            /\ ~from_value(op.T, Index(p.val, "result")).ok)
           => ret.tag = "InvalidJson"

\* C7: one call issues at most one POST; when sending or reading the body
\* fails the call returns NetworkError with that cause, with no second POST
\* and without decoding anything.
C7_OnePostAndNetworkError ==
    /\ Len(posts) <= 1
    /\ (Returned /\ response.failure # "") =>
            /\ ret = NetworkError(response.failure)
            /\ Len(posts) = 1
            /\ decodes = 0
    /\ ret.tag = "NetworkError" => response.failure # ""

\* One call in which the POST went out and came back with status 200, and
\* reading the body then timed out.
C7_Witness ==
    /\ reqPc = "done"
    /\ response.status_code = 200
    /\ response.failure = "timeout"
    /\ ret = NetworkError("timeout")
    /\ Len(posts) = 1

\* C8: the POST body is multipart/form-data when the operation declares
\* multipart parameters and otherwise the JSON encoding of its parameters;
\* no operation is sent with an empty body.
C8_BodyIsMultipartOrJson ==
    \A i \in 1..Len(posts) :
        /\ IsSome(op.params) => posts[i].body = Multipart(Unwrap(op.params))
        /\ ~IsSome(op.params) => posts[i].body.kind = "json"
        /\ posts[i].body.kind # "none"

(***************************************************************************)
(* Claims about the URL builders (SpecUrl)                                 *)
(***************************************************************************)
\* C9: for all non-empty base, token and name, method_url is
\* base + "/bot" + token + "/" + name and file_url is
\* base + "/file/bot" + token + "/" + path.
C9_UrlIsConcatenation ==
    /\ IsSome(url) =>
         Unwrap(url) = base \o <<"/", "b", "o", "t">> \o token \o <<"/">> \o name
    /\ IsSome(furl) =>
         Unwrap(furl) = base \o <<"/", "f", "i", "l", "e", "/", "b", "o", "t">>
                             \o token \o <<"/">> \o name

\* Both builders were applied to a triple in which token and name differ
\* and the token itself contains a slash.
C9_Witness ==
    /\ IsSome(url) /\ IsSome(furl)
    /\ token # name
    /\ \E i \in 1..Len(token) : token[i] = "/"

(***************************************************************************)
(* C11: every InputMedia variant (photo, video, animation, audio,          *)
(* document) whose optional fields are all unset serializes to exactly     *)
(* its `type` tag, the variant name in snake_case, followed by `media`:    *)
(* no unset optional field appears in the JSON.                            *)
(***************************************************************************)
AllUnset(m) ==
    \A f \in DOMAIN m.inner : f # "media" => m.inner[f] = None

TagOf(m) ==
    CASE m.variant = "Photo" -> "photo"
      [] m.variant = "Video" -> "video"
      [] m.variant = "Animation" -> "animation"
      [] m.variant = "Audio" -> "audio"
      [] m.variant = "Document" -> "document"

TypeAndMedia(tag, id) ==
    <<"{", Q, "type", Q, ":", Q, tag, Q, ",",
           Q, "media", Q, ":", Q, id, Q, "}">>

C11_UnsetFieldsAreOmitted ==
    (mediaPc = "done" /\ AllUnset(media))
        => Unwrap(mediaJson) = TypeAndMedia(TagOf(media), media.inner.media.id)

C11_Witness ==
    /\ mediaPc = "done"
    /\ media.variant = "Video"
    /\ AllUnset(media)
    /\ Unwrap(mediaJson) = TypeAndMedia("video", "123456")

(***************************************************************************)
(* C12: at most one fetch-updates call is outstanding at any time: the     *)
(* request and the answer are never in flight together, a call is          *)
(* outstanding only while the poller is Polling and has not got its        *)
(* answer, the poller fetches once per cycle and is back in Idle with      *)
(* nothing outstanding before the next fetch, whatever the handlers of     *)
(* earlier updates are doing.                                              *)
(***************************************************************************)
Outstanding ==
    (IF IsSome(inflight) THEN 1 ELSE 0) + (IF IsSome(reply) THEN 1 ELSE 0)

C12_OneFetchOutstanding ==
    /\ Outstanding <= 1
    /\ Outstanding = 1 => (pollState = "Polling" /\ ~got)
    /\ pollState = "Idle" => Outstanding = 0
    /\ cycle.fetches <= 1

\* A fetch is outstanding while the handler of an earlier update awaits its
\* reply.
C12_Witness ==
    /\ Outstanding = 1
    /\ pollState = "Polling"
    /\ cycle.emittedBefore >= 1
    /\ \E i \in Live : ctxs[i].state = "awaiting"

(***************************************************************************)
(* C13: the offset never decreases from one step to the next, so not from  *)
(* one poll cycle to the next either, whether the cycle succeeded, came    *)
(* back empty or failed.  An unset offset is below every set one.          *)
(***************************************************************************)
OffsetLeq(a, b) ==
    \/ a = None
    \/ IsSome(a) /\ IsSome(b) /\ Unwrap(a) <= Unwrap(b)

C13_OffsetNeverDecreases == [][OffsetLeq(req.offset, req'.offset)]_vars

\* A cycle failed after the offset had advanced, and the offset is kept.
C13_Witness ==
    /\ pollState = "Idle"
    /\ cycle.failure.tag # "none"
    /\ IsSome(req.offset)
    /\ req.offset = cycle.offsetBefore

(***************************************************************************)
(* C14: the updates of one cycle are emitted in ascending id order, and    *)
(* the offset differs from the one the cycle began with only once the      *)
(* whole batch is out and the poller is back in Idle.                      *)
(***************************************************************************)
IsAscending(s) == \A i \in 1..Len(s) : \A j \in 1..Len(s) :
                      i < j => s[i].id < s[j].id

C14_AscendingThenOffset ==
    /\ IsAscending(EmittedInCycle)
    /\ (pollState = "Polling" /\ got) => EmittedInCycle \o pending = cycle.batch
    /\ req.offset # cycle.offsetBefore =>
          /\ pollState = "Idle"
          /\ pending = <<>>
          /\ EmittedInCycle = cycle.batch
          /\ req.offset = Some(cycle.batch[Len(cycle.batch)].id + 1)

\* A batch of two is out, in order, and the offset is past the second.
C14_Witness ==
    /\ pollState = "Idle"
    /\ Len(cycle.batch) = 2
    /\ EmittedInCycle = cycle.batch
    /\ cycle.batch[1].id < cycle.batch[2].id
    /\ req.offset = Some(cycle.batch[2].id + 1)

(***************************************************************************)
(* C15: when the outer loop keeps invoking the poller and polls            *)
(* eventually succeed, every update the server holds with an id at or      *)
(* above the offset is eventually emitted, whatever finite number of       *)
(* polls fail before; and no update is emitted a second time, so none is   *)
(* without a failed poll before it.                                        *)
(***************************************************************************)
HeldFromOffset(id) ==
    /\ \E u \in held : u.id = id
    /\ IsSome(req.offset) => id >= Unwrap(req.offset)

IsEmitted(id) == \E i \in 1..Len(emitted) : emitted[i].id = id

C16_OneContextPerUpdate ==
    /\ Len(ctxs) = Len(emitted)
    /\ \A i \in 1..Len(emitted) :
         /\ ctxs[i].update = emitted[i]
         /\ Cardinality({j \in 1..Len(ctxs) :
                            ctxs[j].update.id = emitted[i].id}) = 1
    /\ \A i \in Live : \A j \in Live :
         i # j => ctxs[i].update.id # ctxs[j].update.id

\* Two contexts are live at once.
C16_Witness ==
    /\ Cardinality(Live) = 2
    /\ \E i \in Live : \E j \in Live : ctxs[i].update.id < ctxs[j].update.id

(***************************************************************************)
(* C17: a step of a handler context (a call of reply, its return, the      *)
(* return of the handler) leaves the poller's offset as it is; the offset  *)
(* changes only in a step of the polling loop, which touches no existing   *)
(* context.                                                                *)
(***************************************************************************)
HandlerStep == Len(ctxs') = Len(ctxs) /\ ctxs' # ctxs

C17_HandlersLeaveOffset ==
    [][ /\ HandlerStep => req' = req
        /\ req'.offset # req.offset =>
              (pollState = "Polling" /\ pollState' = "Idle" /\ ctxs' = ctxs)
      ]_vars

\* A handler replied and returned after the offset had been set.
C17_Witness ==
    /\ IsSome(req.offset)
    /\ \E i \in 1..Len(ctxs) :
         /\ ctxs[i].state = "destroyed"
         /\ emitted[i].id < Unwrap(req.offset)
    /\ \E i \in 1..Len(ctxs) :
         /\ ctxs[i].state = "running"
         /\ ctxs[i].calls = 1
         /\ ctxs[i].ret.tag = "Ok"

(***************************************************************************)
(* C18: sending a GetUpdates leaves the request value as it was (offset,   *)
(* limit, timeout, allowed_updates): while the call is under way and       *)
(* after it returned the value is the one that was sent, a second send     *)
(* of the value after a failed one would post what the first posted, and   *)
(* the offset differs from the one sent only after the caller set it at    *)
(* the end of a successful cycle.                                          *)
(***************************************************************************)
SendReturnedError == pollState = "Idle" /\ cycle.failure.tag # "none"

C18_SendLeavesRequest ==
    /\ pollState = "Polling" => req = cycle.sent
    /\ SendReturnedError =>
          /\ req = cycle.sent
          /\ Some(GetUpdates_send_post(req)) = cycle.post
    /\ (cycle.fetches = 1 /\ req # cycle.sent) =>
          /\ pollState = "Idle"
          /\ cycle.result.tag = "Ok"
          /\ cycle.batch # <<>>
          /\ req = [cycle.sent EXCEPT !.offset = req.offset]

\* A request with offset and limit was sent, the call failed, and a second
\* send of the value would carry the same offset.
C18_Witness ==
    /\ SendReturnedError
    /\ IsSome(req.offset) /\ IsSome(req.limit)
    /\ Unwrap(cycle.post).body.text = ToText(GetUpdates_serialize(req))
    /\ Index(from_str(Unwrap(cycle.post).body.text).val, "offset")
           = JNum(Unwrap(req.offset))

====
